---- MODULE Spec2Model ----
(***************************************************************************)
(* Model of lib/ansible/modules/cloud/cloudstack/cs_volume_snapshot.py.    *)
(*                                                                         *)
(* One invocation of the module is a run of main(): argument validation by *)
(* AnsibleModule, dispatch on params['state'], one of the methods of       *)
(* AnsibleCloudStackVolumeSnapshot, then get_result/exit_json.  The remote *)
(* CloudStack API is the environment: it holds the volumes and snapshots,  *)
(* answers list calls, accepts or rejects mutating calls and resolves      *)
(* asynchronous jobs.  The host runtime may invoke the module again when   *)
(* an invocation has ended.                                                *)
(*                                                                         *)
(* The scope helpers of the base class (get_account, get_domain,           *)
(* get_project, get_zone) only compute filter arguments; the model has a   *)
(* single scope and `calls` records the API commands this file issues.     *)
(***************************************************************************)
EXTENDS Naturals, Sequences, FiniteSets, TLC

\* ---------------------------------------------------------------- bounds
MaxSnapshots == 2
MaxPolls == 2

\* ------------------------------------------------------------ value space
None == "None"

IdPool == <<"snap1", "snap2", "snap3", "snap4">>
SnapIds == {IdPool[i] : i \in 1..MaxSnapshots}
GeneratedName == "generated"
SnapNames == {"s1", GeneratedName}

VolumeRecord == [id |-> "vol1", name |-> "v1"]
VMSnapshotRecord == [id |-> "vmsnap1", name |-> "vs1"]

StateChoices == {"present", "absent", "revert"}
StateDocumented == {"present", "absent", "reverted"}

Params ==
    [state : StateChoices \cup StateDocumented,
     name : {None, "s1"},
     volume : {None, VolumeRecord.name},
     vmsnapshot : {None, VMSnapshotRecord.name},
     poll_async : BOOLEAN,
     check_mode : BOOLEAN]

ListCmds == {"listVolumes", "listSnapshots"}
CreateCmds == {"createSnapshot", "createSnapshotFromVMSnapshot"}
DeleteCmds == {"deleteSnapshot"}
RevertCmds == {"revertSnapshot"}
MutatingCmds == CreateCmds \cup DeleteCmds \cup RevertCmds
PollCmds == {"queryAsyncJobResult"}

NoRecord == [kind |-> "None"]
NoJob == [status |-> "none", cmd |-> None, id |-> None, name |-> None]
NoPrev == [valid |-> FALSE]

VARIABLES
    params,      \* module.params and module.check_mode of the invocation
    pc,          \* position of the invocation in main()
    snapshots,   \* remote: the snapshot listing, in the remote's order
    volumes,     \* remote: the volume listing
    job,         \* remote: the asynchronous job of the last mutating call
    calls,       \* API commands issued by the invocation, in order
    result,      \* self.result
    api_result,  \* the local `result` of the method that ran
    snapshot,    \* main's local `snapshot`, the method's return value
    reported,    \* what exit_json handed to the host runtime
    outcome,     \* how the invocation ended
    start,       \* the snapshot listing when the invocation began
    prev         \* summary of the previous invocation when it had the same spec

vars == <<params, pc, snapshots, volumes, job, calls, result, api_result,
          snapshot, reported, outcome, start, prev>>

\* ----------------------------------------------------------- remote state
RECURSIVE DistinctIds(_)
DistinctIds(s) ==
    IF Len(s) <= 1 THEN TRUE
    ELSE /\ \A i \in 2..Len(s) : s[i].id # s[1].id
         /\ DistinctIds(Tail(s))

SnapshotListings ==
    {s \in UNION {[1..n -> [id : SnapIds, name : SnapNames]] : n \in 0..MaxSnapshots} :
        DistinctIds(s)}

VolumeListings == {<<>>, <<VolumeRecord>>}

NoArgs ==
    [id |-> None, name |-> None, volumeid |-> None, vmsnapshotid |-> None,
     policyid |-> None, jobid |-> None]

FullArgs(args) == args @@ NoArgs

Call(cmd, args) == [cmd |-> cmd] @@ FullArgs(args)

NumCalls(log, cmds) == Cardinality({i \in DOMAIN log : log[i].cmd \in cmds})

Matching(listing, name) == SelectSeq(listing, LAMBDA r : r.name = name)

Ids(listing) == {listing[i].id : i \in DOMAIN listing}

\* The remote accepts a mutating command only with arguments that name
\* existing resources; an accepted command is answered with a job handle or
\* with an empty acknowledgment, and any command may be answered with an error.
ValidArgs(cmd, args) ==
    CASE cmd = "deleteSnapshot" -> args.id \in Ids(snapshots)
      [] cmd = "revertSnapshot" -> args.id \in Ids(snapshots)
      [] cmd = "createSnapshot" ->
            /\ args.volumeid \in Ids(volumes)
            /\ Len(snapshots) < MaxSnapshots
      [] cmd = "createSnapshotFromVMSnapshot" ->
            /\ args.volumeid \in Ids(volumes)
            /\ args.vmsnapshotid = VMSnapshotRecord.id
            /\ Len(snapshots) < MaxSnapshots
      [] OTHER -> FALSE

Responses(cmd, args) ==
    IF ValidArgs(cmd, args) THEN {"job", "empty", "error"} ELSE {"error"}

FreshId == CHOOSE id \in SnapIds : id \notin Ids(snapshots)

Apply(cmd, id, name) ==
    CASE cmd \in DeleteCmds -> SelectSeq(snapshots, LAMBDA r : r.id # id)
      [] cmd \in CreateCmds ->
            IF Len(snapshots) < MaxSnapshots
            THEN Append(snapshots,
                        [id |-> FreshId,
                         name |-> IF name = None THEN GeneratedName ELSE name])
            ELSE snapshots
      [] OTHER -> snapshots

JobRecord(cmd, id, name) ==
    CASE cmd \in CreateCmds -> [kind |-> "snapshot", id |-> FreshId, name |-> name]
      [] OTHER -> [kind |-> "snapshot", id |-> id, name |-> name]

\* ------------------------------------------------------ the module's code
get_snapshot_Relist ==
    IF params.name = None
    THEN [ret |-> None, calls |-> <<>>]
    ELSE LET found == Matching(snapshots, params.name)
         IN  [ret |-> IF found # <<>> THEN found[1].id ELSE None,
              calls |-> <<Call("listSnapshots", [name |-> params.name]),
                          Call("listSnapshots", [name |-> params.name])>>]

\* get_snapshot(key='id'): no name, no lookup; else the first record listed.
get_snapshot ==
    IF params.name = None
    THEN [ret |-> None, calls |-> <<>>]
    ELSE LET found == Matching(snapshots, params.name)
         IN  [ret |-> IF found # <<>> THEN found[1].id ELSE None,
              calls |-> <<Call("listSnapshots", [name |-> params.name])>>]

\* get_volume(key='id'): lists the volumes of the scope; with a non-empty
\* listing it evaluates the unbound name `snapshots` and raises NameError.
get_volume ==
    [ret |-> None,
     calls |-> <<Call("listVolumes", [id |-> None])>>,
     raised |-> volumes # <<>>]

get_snapshot_policy == "MANUAL_POLICY"

Truthy(r) == r.kind \notin {"None", "empty"}

CommandSent_IgnoreCheckMode == TRUE

\* `if not self.module.check_mode:` guards the command and the poll.
CommandSent == ~params.check_mode

\* `self.result['changed'] = True`, then unless in check mode the command
\* is sent; a truthy answer is polled when poll_async is set.  The method
\* has no return statement, so main's `snapshot` is None.
Mutate(cmd, args, lookups) ==
    /\ result' = [result EXCEPT !.changed = TRUE]
    /\ snapshot' = NoRecord
    /\ UNCHANGED <<params, volumes, reported, start, prev>>
    /\ IF ~CommandSent
       THEN /\ calls' = calls \o lookups
            /\ pc' = "get_result"
            /\ UNCHANGED <<snapshots, job, api_result, outcome>>
       ELSE \E resp \in Responses(cmd, FullArgs(args)) :
            /\ calls' = (calls \o lookups) \o <<Call(cmd, args)>>
            /\ CASE resp = "error" ->
                     /\ pc' = "done"
                     /\ outcome' = "RemoteError"
                     /\ UNCHANGED <<snapshots, job, api_result>>
                 [] resp = "empty" ->
                     /\ pc' = "get_result"
                     /\ snapshots' = Apply(cmd, FullArgs(args).id, FullArgs(args).name)
                     /\ api_result' = [kind |-> "empty"]
                     /\ UNCHANGED <<job, outcome>>
                 [] resp = "job" ->
                     /\ pc' = IF Truthy([kind |-> "job"]) /\ params.poll_async
                              THEN "poll_job" ELSE "get_result"
                     /\ job' = [status |-> "pending", cmd |-> cmd,
                                id |-> FullArgs(args).id,
                                name |-> FullArgs(args).name]
                     /\ api_result' = [kind |-> "job", jobid |-> "job1"]
                     /\ UNCHANGED <<snapshots, outcome>>

Raise(lookups) ==
    /\ calls' = calls \o lookups
    /\ pc' = "done"
    /\ outcome' = "InternalError"
    /\ UNCHANGED <<params, snapshots, volumes, job, result, api_result,
                   snapshot, reported, start, prev>>

Method(p) ==
    IF p.state \notin StateChoices THEN "fail_json"
    ELSE IF p.state = "absent" THEN "delete_snapshot"
    ELSE IF p.state = "reverted" THEN "revert_to_snapshot"
    ELSE IF p.vmsnapshot # None THEN "create_from_vmsnapshot"
    ELSE "create_snapshot"

\* AnsibleModule rejects a state outside `choices`; revert_to_snapshot is
\* not a method of the class.
main_fail ==
    /\ pc = "main"
    /\ Method(params) \in {"fail_json", "revert_to_snapshot"}
    /\ pc' = "done"
    /\ outcome' = IF Method(params) = "fail_json"
                  THEN "ValidationError" ELSE "InternalError"
    /\ UNCHANGED <<params, snapshots, volumes, job, calls, result, api_result,
                   snapshot, reported, start, prev>>

delete_snapshot ==
    /\ pc = "main"
    /\ Method(params) = "delete_snapshot"
    /\ LET s == get_snapshot
       IN  Mutate("deleteSnapshot", [id |-> s.ret], s.calls)

create_snapshot ==
    /\ pc = "main"
    /\ Method(params) = "create_snapshot"
    /\ LET v == get_volume
       IN  IF v.raised
           THEN Raise(v.calls)
           ELSE Mutate("createSnapshot",
                       [volumeid |-> v.ret,
                        policyid |-> get_snapshot_policy,
                        name |-> params.name],
                       v.calls)

create_from_vmsnapshot ==
    /\ pc = "main"
    /\ Method(params) = "create_from_vmsnapshot"
    /\ LET v == get_volume
           s == get_snapshot
       IN  IF v.raised
           THEN Raise(v.calls)
           ELSE Mutate("createSnapshotFromVMSnapshot",
                       [volumeid |-> v.ret,
                        name |-> params.name,
                        vmsnapshotid |-> s.ret],
                       v.calls \o s.calls)

\* poll_job(result, 'snapshot'): query the job until it has resolved.
poll_job ==
    /\ pc = "poll_job"
    /\ calls' = Append(calls, Call("queryAsyncJobResult", [jobid |-> api_result.jobid]))
    /\ CASE job.status = "pending" ->
              /\ NumCalls(calls, PollCmds) < MaxPolls
              /\ UNCHANGED <<pc, api_result, outcome>>
         [] job.status = "success" ->
              /\ pc' = "get_result"
              /\ api_result' = job.record
              /\ UNCHANGED outcome
         [] job.status = "failed" ->
              /\ pc' = "done"
              /\ outcome' = "JobFailedError"
              /\ UNCHANGED api_result
    /\ UNCHANGED <<params, snapshots, volumes, job, result, snapshot,
                   reported, start, prev>>

get_result(resource) == [changed |-> result.changed, record |-> resource]

exit_json ==
    /\ pc = "get_result"
    /\ reported' = get_result(snapshot)
    /\ outcome' = "ok"
    /\ pc' = "done"
    /\ UNCHANGED <<params, snapshots, volumes, job, calls, result, api_result,
                   snapshot, start, prev>>

\* ------------------------------------------------------- the environment
\* The remote resolves the pending job; the command takes effect on success.
RemoteJobResolve ==
    /\ job.status = "pending"
    /\ \E ok \in BOOLEAN :
         IF ok
         THEN /\ job' = [job EXCEPT !.status = "success"] @@
                        [record |-> JobRecord(job.cmd, job.id, job.name)]
              /\ snapshots' = Apply(job.cmd, job.id, job.name)
         ELSE /\ job' = [job EXCEPT !.status = "failed"]
              /\ UNCHANGED snapshots
    /\ UNCHANGED <<params, pc, volumes, calls, result, api_result, snapshot,
                   reported, outcome, start, prev>>

SameSpec(p, q) == [p EXCEPT !.check_mode = FALSE] = [q EXCEPT !.check_mode = FALSE]

Summary ==
    [valid |-> TRUE, check_mode |-> params.check_mode,
     changed |-> result.changed, outcome |-> outcome, start |-> start]

\* The host runtime runs the module again once the invocation has ended.
Invoke(p) ==
    /\ pc = "done"
    /\ job.status # "pending"
    /\ params' = p
    /\ pc' = "main"
    /\ job' = NoJob
    /\ calls' = <<>>
    /\ result' = [changed |-> FALSE]
    /\ api_result' = NoRecord
    /\ snapshot' = NoRecord
    /\ reported' = NoRecord
    /\ outcome' = "none"
    /\ start' = snapshots
    /\ prev' = IF SameSpec(p, params) THEN Summary ELSE NoPrev
    /\ UNCHANGED <<snapshots, volumes>>

Init ==
    /\ params \in Params
    /\ pc = "main"
    /\ snapshots \in SnapshotListings
    /\ volumes \in VolumeListings
    /\ job = NoJob
    /\ calls = <<>>
    /\ result = [changed |-> FALSE]
    /\ api_result = NoRecord
    /\ snapshot = NoRecord
    /\ reported = NoRecord
    /\ outcome = "none"
    /\ start = snapshots
    /\ prev = NoPrev

Next ==
    \/ main_fail
    \/ delete_snapshot
    \/ create_snapshot
    \/ create_from_vmsnapshot
    \/ poll_job
    \/ exit_json
    \/ RemoteJobResolve
    \/ \E p \in Params : Invoke(p)

Spec == Init /\ [][Next]_vars

\* ------------------------------------------------------------ properties
Ended == pc = "done"

MatchAtStart == params.name # None /\ Matching(start, params.name) # <<>>

FirstMatchId == Matching(start, params.name)[1].id

CallsOf(cmds) == {i \in DOMAIN calls : calls[i].cmd \in cmds}

VolumeId(name) ==
    IF \E i \in DOMAIN volumes : volumes[i].name = name
    THEN (CHOOSE r \in {volumes[i] : i \in DOMAIN volumes} : r.name = name).id
    ELSE None

VMSnapshotId(name) ==
    IF name = VMSnapshotRecord.name THEN VMSnapshotRecord.id ELSE None

JobHandleReturned ==
    /\ CallsOf(MutatingCmds) # {}
    /\ job.status # "none"

\* C1: an invocation with state=present that finds a snapshot of the
\* requested name issues no create call and reports changed=false.
C1_PresentExistingIsNoOp ==
    (Ended /\ params.state = "present" /\ MatchAtStart)
        => (CallsOf(CreateCmds) = {} /\ ~result.changed)

\* C2: a live invocation with state=absent issues no deleteSnapshot and
\* reports changed=false when the lookup has no match, and issues exactly
\* one deleteSnapshot with the matched id and reports changed=true when it has.
C2_AbsentDeletesOnlyMatch ==
    (Ended /\ params.state = "absent" /\ ~params.check_mode)
        => IF MatchAtStart
           THEN /\ Cardinality(CallsOf(DeleteCmds)) = 1
                /\ \A i \in CallsOf(DeleteCmds) : calls[i].id = FirstMatchId
                /\ result.changed
           ELSE /\ CallsOf(DeleteCmds) = {}
                /\ ~result.changed

\* C3: a live invocation with state=present, a volume parameter and no
\* snapshot of the requested name issues exactly one create call
\* (createSnapshot with the id of the named volume when vmsnapshot is unset),
\* ends without an internal error and reports changed=true.
C3_PresentMissingCreatesOnce ==
    (Ended /\ params.state = "present" /\ ~params.check_mode
           /\ params.volume # None /\ ~MatchAtStart)
        => /\ Cardinality(CallsOf(CreateCmds)) = 1
           /\ outcome # "InternalError"
           /\ result.changed
           /\ params.vmsnapshot = None =>
                \A i \in CallsOf(CreateCmds) :
                    /\ calls[i].cmd = "createSnapshot"
                    /\ calls[i].volumeid # None
                    /\ calls[i].volumeid = VolumeId(params.volume)

\* C4: an invocation with state=reverted that finds no snapshot of the
\* requested name ends in NotFoundError and issues no mutating call.
C4_RevertMissingIsNotFound ==
    (Ended /\ params.state = "reverted" /\ ~MatchAtStart)
        => (outcome = "NotFoundError" /\ CallsOf(MutatingCmds) = {})

\* C5: state=reverted is accepted, and a live invocation that finds the
\* snapshot issues exactly one revert call with its id, no create or delete
\* call, and reports changed=true.
C5_RevertedIssuesRevert ==
    (Ended /\ params.state = "reverted" /\ ~params.check_mode /\ MatchAtStart)
        => /\ outcome # "ValidationError"
           /\ Cardinality(CallsOf(RevertCmds)) = 1
           /\ \A i \in CallsOf(RevertCmds) : calls[i].id = FirstMatchId
           /\ CallsOf(CreateCmds \cup DeleteCmds) = {}
           /\ result.changed

\* C6: a check-mode invocation issues no mutating call and no job poll, and
\* of a check-mode and a live invocation with the same spec that began on the
\* same remote state, both report the same changed flag.
C6_DryRunMatchesLive ==
    /\ params.check_mode => CallsOf(MutatingCmds \cup PollCmds) = {}
    /\ (Ended /\ prev.valid /\ prev.check_mode # params.check_mode
              /\ prev.start = start)
          => prev.changed = result.changed

C6_Witness ==
    /\ Ended /\ prev.valid /\ prev.check_mode /\ ~params.check_mode
    /\ prev.start = start
    /\ prev.changed /\ result.changed
    /\ prev.outcome = "ok" /\ outcome = "ok"
    /\ Cardinality(CallsOf(MutatingCmds)) = 1

\* C7: an invocation with state=present and no volume parameter ends in
\* ValidationError without having issued any remote call.
C7_MissingVolumeIsValidationError ==
    (Ended /\ params.state = "present" /\ params.volume = None)
        => (outcome = "ValidationError" /\ calls = <<>>)

\* C8: when a live mutating call returned a job handle and the invocation
\* reports success, then with poll_async the job was polled after the
\* mutating call and the reported result carries the job's snapshot record,
\* and without poll_async no poll was issued and the reported result carries
\* the job-submission acknowledgment.
C8_ReportCarriesJobResult ==
    (Ended /\ outcome = "ok" /\ ~params.check_mode /\ JobHandleReturned)
        => IF params.poll_async
           THEN /\ \E i \in CallsOf(MutatingCmds) :
                     \E j \in CallsOf(PollCmds) : i < j
                /\ reported.record = api_result
                /\ reported.record.kind = "snapshot"
           ELSE /\ CallsOf(PollCmds) = {}
                /\ reported.record = api_result
                /\ reported.record.kind = "job"

\* C9: the vmsnapshotid argument of createSnapshotFromVMSnapshot is the id
\* of the VM snapshot named by the vmsnapshot parameter.
C9_VMSnapshotIdIsSource ==
    \A i \in CallsOf({"createSnapshotFromVMSnapshot"}) :
        calls[i].vmsnapshotid = VMSnapshotId(params.vmsnapshot)

\* C10 as stated: an invocation issues at most one lookup call and at most
\* one mutating call.
C10_AtMostOneLookup ==
    /\ Cardinality(CallsOf(ListCmds)) <= 1
    /\ Cardinality(CallsOf(MutatingCmds)) <= 1

\* C10 amended: an invocation issues at most one listVolumes call, at most
\* one listSnapshots call and at most one mutating call.
C10_AtMostOneLookupPerKind ==
    /\ Cardinality(CallsOf({"listVolumes"})) <= 1
    /\ Cardinality(CallsOf({"listSnapshots"})) <= 1
    /\ Cardinality(CallsOf(MutatingCmds)) <= 1

C10_Witness ==
    /\ Ended
    /\ Cardinality(CallsOf({"listVolumes"})) = 1
    /\ Cardinality(CallsOf({"listSnapshots"})) = 1
    /\ Cardinality(CallsOf(MutatingCmds)) = 1

====
